---- MODULE Spec2Model ----
(***************************************************************************)
(* The "smart_custom" extraction strategy of osmium-tool                   *)
(* (src/extract/strategy_smart_custom.cpp, second translation unit of the  *)
(* file, lines 371-732): per-extract ID sets, the four passes over the     *)
(* input file and the relation-network closure between pass 1 and pass 2.  *)
(***************************************************************************)
EXTENDS Integers, Sequences, FiniteSets, TLC

\* ------------------------------------------------------------------ bounds

\* Longest node list of a way of the input.
MaxRefs == 2

\* Longest member list of the relation of the inputs that vary one relation.
MaxMembers == 2

\* Largest number of members of all relations of an input together.
MaxTotalMembers == 3

\* The extracts (m_extracts), in the order of the vector.
Regions == {1, 2}

\* The IDs the elements of the input are drawn from.
PointIds == {1, 2}
RelationIds == {1, 2, 3}

\* ------------------------------------------------------------------ state

VARIABLES
    file,               \* the input file: a sequence of nodes, ways and relations
    filename_empty,     \* input_file.filename().empty(): the input is STDIN
    m_by_first_node,    \* Strategy::m_by_first_node
    pc,                 \* where Strategy::run is
    pos,                \* position in file of the element the running pass reads next
    m_check_order,      \* Pass1::m_check_order: the largest ID seen per type
    m_extracts,         \* per extract the six ID sets of Data
    m_relations_map_stash, \* Pass1::m_relations_map_stash: <<member, parent>> pairs
    relation_indices,   \* the indexes built from the stash after pass 1
    cur,                \* the extract add_relation_network is working on
    q,                  \* the work queue of add_relation_network
    pushed,             \* per extract, the IDs pushed on q, in the order of the pushes
    out,                \* per extract, the positions of the elements written
    ran,                \* the conditional passes that were started
    calls2,             \* number of invocations of Pass2::erelation
    scanned             \* per extract, the number of members the loop of
                        \* Pass1::erelation looked at in the relation read last

vars == <<file, filename_empty, m_by_first_node, pc, pos, m_check_order,
          m_extracts, m_relations_map_stash, relation_indices, cur, q, pushed,
          out, ran, calls2, scanned>>

\* --------------------------------------------------------------- helpers

Range(s) == {s[i] : i \in DOMAIN s}

Min(S) == CHOOSE x \in S : \A y \in S : x <= y

\* The elements of a finite set of integers in ascending order.
RECURSIVE Sorted(_)
Sorted(S) == IF S = {} THEN <<>> ELSE <<Min(S)>> \o Sorted(S \ {Min(S)})

\* ---------------------------------------------------------- configuration

\* The rules of the "relations" and "relation-system" options, as tag keys.
m_relation_filter == {"rel"}
m_relation_system_filter == {"sys"}

\* osmium::tags::match_any_of with a filter whose default result is false.
match_any_of(tags, filter) == tags \cap filter # {}

is_relevant_relation(relation) ==
    match_any_of(relation.tags, m_relation_filter)

is_part_of_relevant_relation_system(relation) ==
    match_any_of(relation.tags, m_relation_system_filter)

\* The extract's predicates. A location is modelled by the set of extracts
\* whose boundary contains it.
contains(r, location) == r \in location
has_conflicting_tags(r, tags) == "c" \in tags
has_matching_tags(r, tags) == "m" \in tags

\* -------------------------------------------------------------------- Data

EmptyData ==
    [node_ids |-> {}, extra_node_ids |-> {},
     way_ids |-> {}, extra_way_ids |-> {},
     relation_ids |-> {}, extra_relation_ids |-> {}]

\* add_members_from with a case for relation members: their IDs go to
\* extra_relation_ids.
RECURSIVE add_members_from_relations(_, _, _)
add_members_from_relations(e, relation, i) ==
    IF i > Len(relation.members) THEN e
    ELSE LET member == relation.members[i]
             ref == member.ref
             e1 == CASE member.type = "node" /\ ref \notin e.node_ids ->
                          [e EXCEPT !.extra_node_ids = @ \cup {ref}]
                     [] member.type = "way" /\ ref \notin e.way_ids ->
                          [e EXCEPT !.extra_way_ids = @ \cup {ref}]
                     [] member.type = "relation" /\ ref \notin e.relation_ids ->
                          [e EXCEPT !.extra_relation_ids = @ \cup {ref}]
                     [] OTHER -> e
         IN add_members_from_relations(e1, relation, i + 1)

\* Data::add_relation_members, members i.. of the relation.
RECURSIVE add_members_from(_, _, _)
add_members_from(e, relation, i) ==
    IF i > Len(relation.members) THEN e
    ELSE LET member == relation.members[i]
             ref == member.ref
             e1 == CASE member.type = "node" /\ ref \notin e.node_ids ->
                          [e EXCEPT !.extra_node_ids = @ \cup {ref}]
                     [] member.type = "way" /\ ref \notin e.way_ids ->
                          [e EXCEPT !.extra_way_ids = @ \cup {ref}]
                     [] OTHER -> e
         IN add_members_from(e1, relation, i + 1)

add_relation_members(e, relation) == add_members_from(e, relation, 1)

\* RelationsMapIndex::for_each_parent: the values stored for a key, ascending.
for_each_parent(index, id) == Sorted({p[2] : p \in {x \in index : x[1] = id}})

\* The lambda queue_relations of add_relation_network: what it pushes for id.
queue_relations(indices, id) ==
    for_each_parent(indices.member_to_parent, id)
        \o for_each_parent(indices.parent_to_member, id)

\* The first loop of add_relation_network: the pushes for every primary ID.
RECURSIVE queue_all(_, _)
queue_all(indices, ids) ==
    IF ids = <<>> THEN <<>>
    ELSE queue_relations(indices, Head(ids)) \o queue_all(indices, Tail(ids))

\* ------------------------------------------------------------------- Pass1

\* CheckOrder::node/way/relation: TRUE when the element is accepted.
check_order_ok(co, x) ==
    CASE x.type = "node" ->
            co.way = 0 /\ co.relation = 0 /\ x.id > co.node
      [] x.type = "way" ->
            co.relation = 0 /\ x.id > co.way
      [] x.type = "relation" ->
            x.id > co.relation

check_order_update(co, x) ==
    CASE x.type = "node" -> [co EXCEPT !.node = x.id]
      [] x.type = "way" -> [co EXCEPT !.way = x.id]
      [] x.type = "relation" -> [co EXCEPT !.relation = x.id]

\* Pass1_enode without the test of the extract's boundary.
Pass1_enode_unconditional(e, r, node) ==
    [e EXCEPT !.node_ids = @ \cup {node.id}]

Pass1_enode(e, r, node) ==
    IF contains(r, node.location)
    THEN [e EXCEPT !.node_ids = @ \cup {node.id}]
    ELSE e

\* mark_way_nodes without the test of node_ids: every node of the way goes
\* to extra_node_ids.
RECURSIVE mark_way_nodes_all(_, _, _)
mark_way_nodes_all(e, way, i) ==
    IF i > Len(way.nodes) THEN e
    ELSE mark_way_nodes_all(
             [e EXCEPT !.extra_node_ids = @ \cup {way.nodes[i]}], way, i + 1)

\* The inner loop of eway and of Pass3::eway: every node of the way that is
\* not in node_ids goes to extra_node_ids.
RECURSIVE mark_way_nodes(_, _, _)
mark_way_nodes(e, way, i) ==
    IF i > Len(way.nodes) THEN e
    ELSE mark_way_nodes(
             IF way.nodes[i] \notin e.node_ids
             THEN [e EXCEPT !.extra_node_ids = @ \cup {way.nodes[i]}]
             ELSE e,
             way, i + 1)

\* eway_by_first_node without the test of the conflicting tags.
eway_by_first_node_no_conflict(e, r, way, front_get) ==
    IF front_get \/ has_matching_tags(r, way.tags)
    THEN mark_way_nodes([e EXCEPT !.way_ids = @ \cup {way.id}], way, 1)
    ELSE e

\* The branch of eway taken with m_by_first_node; front_get is the value of
\* node_ids.get(first_node.positive_ref()), which for a way without nodes
\* reads past the node list and may be anything.
eway_by_first_node(e, r, way, front_get) ==
    IF (front_get /\ ~has_conflicting_tags(r, way.tags))
           \/ has_matching_tags(r, way.tags)
    THEN mark_way_nodes([e EXCEPT !.way_ids = @ \cup {way.id}], way, 1)
    ELSE e

\* eway_any_node looking at node i alone.
eway_any_node_one(e, way, i) ==
    IF i > Len(way.nodes) THEN e
    ELSE IF way.nodes[i] \in e.node_ids
         THEN mark_way_nodes([e EXCEPT !.way_ids = @ \cup {way.id}], way, 1)
         ELSE e

\* The branch of eway taken without m_by_first_node: the loop from node i.
RECURSIVE eway_any_node(_, _, _)
eway_any_node(e, way, i) ==
    IF i > Len(way.nodes) THEN e
    ELSE IF way.nodes[i] \in e.node_ids
         THEN mark_way_nodes([e EXCEPT !.way_ids = @ \cup {way.id}], way, 1)
         ELSE eway_any_node(e, way, i + 1)

\* Pass1_eway not reading m_by_first_node: the loop over all nodes always.
Pass1_eway_any(e, r, way, garbage) == eway_any_node(e, way, 1)

Pass1_eway(e, r, way, garbage) ==
    IF m_by_first_node
    THEN eway_by_first_node(e, r, way,
             IF Len(way.nodes) = 0 THEN garbage
             ELSE way.nodes[1] \in e.node_ids)
    ELSE eway_any_node(e, way, 1)

\* Pass1_relation without the test of the relation-system rules.
Pass1_relation_any(stash, relation) ==
    stash \cup {<<relation.members[i].ref, relation.id>> :
                   i \in {j \in DOMAIN relation.members :
                             relation.members[j].type = "relation"}}

\* Pass1::relation after the order check: the stash gets the relation-typed
\* members of a relation that is part of a relevant relation system.
Pass1_relation(stash, relation) ==
    IF is_part_of_relevant_relation_system(relation)
    THEN stash \cup {<<relation.members[i].ref, relation.id>> :
                        i \in {j \in DOMAIN relation.members :
                                  relation.members[j].type = "relation"}}
    ELSE stash

\* erelation_hit pulling the members in whatever the relation's tags.
erelation_hit_always(e, relation) ==
    add_relation_members([e EXCEPT !.relation_ids = @ \cup {relation.id}],
                         relation)

\* What erelation does on a member that is in the primary set of its type.
erelation_hit(e, relation) ==
    LET e1 == [e EXCEPT !.relation_ids = @ \cup {relation.id}]
    IN IF is_relevant_relation(relation)
              \/ is_part_of_relevant_relation_system(relation)
       THEN add_relation_members(e1, relation)
       ELSE e1

\* erelation_from taking a member that is in the extra set for a hit too.
RECURSIVE erelation_from_extra(_, _, _)
erelation_from_extra(e, relation, i) ==
    IF i > Len(relation.members) THEN e
    ELSE LET member == relation.members[i]
         IN CASE member.type = "node"
                   /\ member.ref \in e.node_ids \cup e.extra_node_ids ->
                     erelation_hit(e, relation)
              [] member.type = "way"
                   /\ member.ref \in e.way_ids \cup e.extra_way_ids ->
                     erelation_hit(e, relation)
              [] OTHER -> erelation_from_extra(e, relation, i + 1)

RECURSIVE erelation_from(_, _, _)
erelation_from(e, relation, i) ==
    IF i > Len(relation.members) THEN e
    ELSE LET member == relation.members[i]
         IN CASE member.type = "node" /\ member.ref \in e.node_ids ->
                     erelation_hit(e, relation)
              [] member.type = "way" /\ member.ref \in e.way_ids ->
                     erelation_hit(e, relation)
              [] OTHER -> erelation_from(e, relation, i + 1)

Pass1_erelation(e, relation) == erelation_from(e, relation, 1)

\* erelation_scanned with the return inside the inner if: the loop goes on
\* after a hit on a relation that is neither relevant nor part of a system.
RECURSIVE erelation_scanned_if_pulled(_, _, _)
erelation_scanned_if_pulled(e, relation, i) ==
    IF i > Len(relation.members) THEN Len(relation.members)
    ELSE LET member == relation.members[i]
             hit == \/ member.type = "node" /\ member.ref \in e.node_ids
                    \/ member.type = "way" /\ member.ref \in e.way_ids
         IN IF hit /\ (is_relevant_relation(relation)
                         \/ is_part_of_relevant_relation_system(relation))
            THEN i
            ELSE erelation_scanned_if_pulled(e, relation, i + 1)

\* The number of members the for loop of Pass1::erelation looks at from
\* member i on: up to the member whose case returns, or all of them.
RECURSIVE erelation_scanned(_, _, _)
erelation_scanned(e, relation, i) ==
    IF i > Len(relation.members) THEN Len(relation.members)
    ELSE LET member == relation.members[i]
             hit == \/ member.type = "node" /\ member.ref \in e.node_ids
                    \/ member.type = "way" /\ member.ref \in e.way_ids
         IN IF hit THEN i ELSE erelation_scanned(e, relation, i + 1)

\* ------------------------------------------------------- Pass2 .. Pass4

\* Pass2_erelation asking for a relevant relation, not for one of a system.
Pass2_erelation_relevant(e, relation) ==
    IF relation.id \in e.extra_relation_ids /\ is_relevant_relation(relation)
    THEN add_relation_members(e, relation)
    ELSE e

\* Pass2_erelation pulling the members of a relevant relation as well.
Pass2_erelation_either(e, relation) ==
    IF relation.id \in e.extra_relation_ids
           /\ (is_relevant_relation(relation)
                  \/ is_part_of_relevant_relation_system(relation))
    THEN add_relation_members(e, relation)
    ELSE e

Pass2_erelation(e, relation) ==
    IF relation.id \in e.extra_relation_ids
           /\ is_part_of_relevant_relation_system(relation)
    THEN add_relation_members(e, relation)
    ELSE e

\* Pass3_eway doing nothing.
Pass3_eway_skip(e, way) == e

Pass3_eway(e, way) ==
    IF way.id \in e.extra_way_ids THEN mark_way_nodes(e, way, 1) ELSE e

\* Pass4_writes looking at the primary sets alone.
Pass4_writes_primary(e, x) ==
    CASE x.type = "node" -> x.id \in e.node_ids
      [] x.type = "way" -> x.id \in e.way_ids
      [] x.type = "relation" -> x.id \in e.relation_ids

\* The condition under which Pass4::enode/eway/erelation write the element.
Pass4_writes(e, x) ==
    CASE x.type = "node" -> x.id \in e.node_ids \/ x.id \in e.extra_node_ids
      [] x.type = "way" -> x.id \in e.way_ids \/ x.id \in e.extra_way_ids
      [] x.type = "relation" ->
            x.id \in e.relation_ids \/ x.id \in e.extra_relation_ids

\* ------------------------------------------------------------------ inputs

Node(id, location) == [type |-> "node", id |-> id, location |-> location]
Way(id, nodes, tags) == [type |-> "way", id |-> id, nodes |-> nodes, tags |-> tags]
Relation(id, members, tags) ==
    [type |-> "relation", id |-> id, members |-> members, tags |-> tags]
Member(type, ref) == [type |-> type, ref |-> ref]

SeqsUpTo(S, n) == UNION {[1..k -> S] : k \in 0..n}

\* A point of the input, or none: the sequences of at most one node with this ID.
NodeOrNone(id) == {<<>>} \cup {<<Node(id, l)>> : l \in SUBSET Regions}

\* Inputs that vary the ways: two points anywhere (the second possibly
\* missing), one way over them with any tags, and a relation holding the way.
WayInputs ==
    \E b \in BOOLEAN, l \in SUBSET Regions, p2 \in NodeOrNone(2),
       ns \in SeqsUpTo(PointIds, MaxRefs), wt \in SUBSET {"c", "m"} :
        /\ m_by_first_node = b
        /\ file = <<Node(1, l)>> \o p2 \o <<Way(1, ns, wt)>>
                     \o <<Relation(1, <<Member("way", 1)>>, {"rel"})>>

\* Inputs that vary the members of one relation: two points anywhere, a way
\* on each, and a relation over points, ways and relations (relation 2 is
\* not in the input).
MemberChoices ==
    {Member("node", 1), Member("node", 2), Member("way", 1), Member("way", 2),
     Member("relation", 1), Member("relation", 2)}

MemberInputs ==
    \E l \in SUBSET Regions, p2 \in NodeOrNone(2),
       ms \in SeqsUpTo(MemberChoices, MaxMembers), rt \in SUBSET {"rel", "sys"} :
        /\ m_by_first_node = FALSE
        /\ file = <<Node(1, l)>> \o p2
                     \o <<Way(1, <<1>>, {}), Way(2, <<2>>, {})>>
                     \o <<Relation(1, ms, rt)>>

\* Inputs that vary the relation graph: point 1 in extract 1, point 2 and
\* way 2 in extract 2, and three relations over point 1, way 2 and each other
\* with at most MaxTotalMembers members together; each relation is part of
\* a relation system or not, and the third may be relevant by itself.
NetworkChoices ==
    {Member("node", 1), Member("way", 2)}
        \cup {Member("relation", i) : i \in RelationIds}

NetworkLengths ==
    {l \in [RelationIds -> 0..MaxTotalMembers] :
        l[1] + l[2] + l[3] <= MaxTotalMembers}

NetworkInputs ==
    \E l \in NetworkLengths :
        \E m1 \in [1..l[1] -> NetworkChoices],
           m2 \in [1..l[2] -> NetworkChoices],
           m3 \in [1..l[3] -> NetworkChoices],
           t1 \in {{}, {"sys"}}, t2 \in {{}, {"sys"}},
           t3 \in {{}, {"sys"}, {"rel"}} :
            /\ m_by_first_node = FALSE
            /\ file = <<Node(1, {1}), Node(2, {2}), Way(2, <<2>>, {}),
                        Relation(1, m1, t1), Relation(2, m2, t2),
                        Relation(3, m3, t3)>>

\* Short files in any order, also ones CheckOrder rejects.
OrderChoices ==
    {Node(1, {1}), Node(2, {}), Way(1, <<1>>, {}),
     Relation(1, <<Member("node", 1)>>, {"sys"})}

OrderInputs ==
    \E f \in SeqsUpTo(OrderChoices, 2) :
        /\ m_by_first_node = FALSE
        /\ file = f

\* ------------------------------------------------------------------- run

\* The position of the first element at or after position from whose type a
\* reader restricted to types delivers; Len(file) + 1 when there is none.
NextPos(types, from) ==
    LET S == {i \in from..Len(file) : file[i].type \in types}
    IN IF S = {} THEN Len(file) + 1 ELSE Min(S)

Init ==
    /\ WayInputs \/ MemberInputs \/ NetworkInputs \/ OrderInputs
    /\ filename_empty \in BOOLEAN
    /\ pc = "start"
    /\ pos = 1
    /\ m_check_order = [node |-> 0, way |-> 0, relation |-> 0]
    /\ m_extracts = [r \in Regions |-> EmptyData]
    /\ m_relations_map_stash = {}
    /\ relation_indices = [member_to_parent |-> {}, parent_to_member |-> {}]
    /\ cur = 1
    /\ q = <<>>
    /\ pushed = [r \in Regions |-> <<>>]
    /\ out = [r \in Regions |-> <<>>]
    /\ ran = {}
    /\ calls2 = 0
    /\ scanned = [r \in Regions |-> 0]

\* run(): the input is STDIN, io_error is thrown.
ThrowStdin ==
    /\ pc = "start"
    /\ filename_empty
    /\ pc' = "failed"
    /\ UNCHANGED <<file, filename_empty, m_by_first_node, pos, m_check_order,
                   m_extracts, m_relations_map_stash, relation_indices, cur, q,
                   pushed, out, ran, calls2, scanned>>

\* StartPass1 without the test of the input file name.
StartPass1_unchecked ==
    /\ pc = "start"
    /\ pc' = "pass1"
    /\ pos' = 1
    /\ UNCHANGED <<file, filename_empty, m_by_first_node, m_check_order,
                   m_extracts, m_relations_map_stash, relation_indices, cur, q,
                   pushed, out, ran, calls2, scanned>>

StartPass1 ==
    /\ pc = "start"
    /\ ~filename_empty
    /\ pc' = "pass1"
    /\ pos' = 1
    /\ UNCHANGED <<file, filename_empty, m_by_first_node, m_check_order,
                   m_extracts, m_relations_map_stash, relation_indices, cur, q,
                   pushed, out, ran, calls2, scanned>>

\* Pass 1 reads an element CheckOrder rejects: out_of_order_error ends run().
Pass1OutOfOrder ==
    /\ pc = "pass1"
    /\ pos <= Len(file)
    /\ ~check_order_ok(m_check_order, file[pos])
    /\ pc' = "failed"
    /\ UNCHANGED <<file, filename_empty, m_by_first_node, pos, m_check_order,
                   m_extracts, m_relations_map_stash, relation_indices, cur, q,
                   pushed, out, ran, calls2, scanned>>

\* Pass1Node writing the node to the extracts it is inside of, as a
\* one-pass strategy does.
Pass1Node_writing ==
    /\ pc = "pass1"
    /\ pos <= Len(file)
    /\ file[pos].type = "node"
    /\ check_order_ok(m_check_order, file[pos])
    /\ m_check_order' = check_order_update(m_check_order, file[pos])
    /\ m_extracts' = [r \in Regions |-> Pass1_enode(m_extracts[r], r, file[pos])]
    /\ out' = [r \in Regions |->
                 IF contains(r, file[pos].location)
                 THEN Append(out[r], pos) ELSE out[r]]
    /\ pos' = pos + 1
    /\ UNCHANGED <<file, filename_empty, m_by_first_node, pc,
                   m_relations_map_stash, relation_indices, cur, q, pushed,
                   ran, calls2, scanned>>

Pass1Node ==
    /\ pc = "pass1"
    /\ pos <= Len(file)
    /\ file[pos].type = "node"
    /\ check_order_ok(m_check_order, file[pos])
    /\ m_check_order' = check_order_update(m_check_order, file[pos])
    /\ m_extracts' = [r \in Regions |-> Pass1_enode(m_extracts[r], r, file[pos])]
    /\ pos' = pos + 1
    /\ UNCHANGED <<file, filename_empty, m_by_first_node, pc,
                   m_relations_map_stash, relation_indices, cur, q, pushed,
                   out, ran, calls2, scanned>>

\* For a way without nodes and with m_by_first_node, nodes().front() is a
\* reference past the list: the ID read there is any value.
Pass1Way ==
    /\ pc = "pass1"
    /\ pos <= Len(file)
    /\ file[pos].type = "way"
    /\ check_order_ok(m_check_order, file[pos])
    /\ m_check_order' = check_order_update(m_check_order, file[pos])
    /\ \E g \in IF m_by_first_node /\ Len(file[pos].nodes) = 0
                THEN PointIds \cup {0} ELSE {0} :
          m_extracts' = [r \in Regions |->
              Pass1_eway(m_extracts[r], r, file[pos], g \in m_extracts[r].node_ids)]
    /\ pos' = pos + 1
    /\ UNCHANGED <<file, filename_empty, m_by_first_node, pc,
                   m_relations_map_stash, relation_indices, cur, q, pushed,
                   out, ran, calls2, scanned>>

Pass1Relation ==
    /\ pc = "pass1"
    /\ pos <= Len(file)
    /\ file[pos].type = "relation"
    /\ check_order_ok(m_check_order, file[pos])
    /\ m_check_order' = check_order_update(m_check_order, file[pos])
    /\ m_relations_map_stash' = Pass1_relation(m_relations_map_stash, file[pos])
    /\ m_extracts' = [r \in Regions |-> Pass1_erelation(m_extracts[r], file[pos])]
    /\ scanned' = [r \in Regions |->
                     erelation_scanned(m_extracts[r], file[pos], 1)]
    /\ pos' = pos + 1
    /\ UNCHANGED <<file, filename_empty, m_by_first_node, pc, relation_indices,
                   cur, q, pushed, out, ran, calls2>>

Pass1Done ==
    /\ pc = "pass1"
    /\ pos > Len(file)
    /\ pc' = "build_indexes"
    /\ UNCHANGED <<file, filename_empty, m_by_first_node, pos, m_check_order,
                   m_extracts, m_relations_map_stash, relation_indices, cur, q,
                   pushed, out, ran, calls2, scanned>>

\* relations_map_stash().build_indexes(): the stash sorted by member, and a
\* flipped copy sorted by parent.
build_indexes(stash) ==
    [member_to_parent |-> stash,
     parent_to_member |-> {<<p[2], p[1]>> : p \in stash}]

BuildIndexes ==
    /\ pc = "build_indexes"
    /\ relation_indices' = build_indexes(m_relations_map_stash)
    /\ pc' = "network"
    /\ cur' = 1
    /\ UNCHANGED <<file, filename_empty, m_by_first_node, pos, m_check_order,
                   m_extracts, m_relations_map_stash, q, pushed, out, ran,
                   calls2, scanned>>

\* NetworkSeed taking the seeds from the relation_ids of every extract.
NetworkSeed_shared ==
    /\ pc = "network"
    /\ LET all == UNION {m_extracts[r].relation_ids : r \in Regions}
           ids == queue_all(relation_indices, Sorted(all))
       IN /\ q' = ids
          /\ pushed' = [pushed EXCEPT ![cur] = @ \o ids]
    /\ pc' = "network_loop"
    /\ UNCHANGED <<file, filename_empty, m_by_first_node, pos, m_check_order,
                   m_extracts, m_relations_map_stash, relation_indices, cur,
                   out, ran, calls2, scanned>>

\* add_relation_network for extract cur, up to its while loop.
NetworkSeed ==
    /\ pc = "network"
    /\ LET ids == queue_all(relation_indices, Sorted(m_extracts[cur].relation_ids))
       IN /\ q' = ids
          /\ pushed' = [pushed EXCEPT ![cur] = @ \o ids]
    /\ pc' = "network_loop"
    /\ UNCHANGED <<file, filename_empty, m_by_first_node, pos, m_check_order,
                   m_extracts, m_relations_map_stash, relation_indices, cur,
                   out, ran, calls2, scanned>>

\* network_visit that makes the ID the only one of extra_relation_ids.
network_visit_assign(e, id) ==
    IF id \notin e.relation_ids /\ id \notin e.extra_relation_ids
    THEN [e EXCEPT !.extra_relation_ids = {id}]
    ELSE e

\* network_visit that never sets the bit of the ID.
network_visit_unmarked(e, id) == e

\* What one iteration of the while loop makes of the extract's data.
network_visit(e, id) ==
    IF id \notin e.relation_ids /\ id \notin e.extra_relation_ids
    THEN [e EXCEPT !.extra_relation_ids = @ \cup {id}]
    ELSE e

\* network_pushes pushing nothing: the neighbours of a new ID are not followed.
network_pushes_none(e, indices, id) == <<>>

\* network_pushes with the call of queue_relations in the other branch: the
\* neighbours of an ID that is already in a set are pushed.
network_pushes_else(e, indices, id) ==
    IF id \notin e.relation_ids /\ id \notin e.extra_relation_ids
    THEN <<>>
    ELSE queue_relations(indices, id)

\* network_pushes with the call of queue_relations outside the if.
network_pushes_always(e, indices, id) == queue_relations(indices, id)

\* What one iteration of the while loop pushes.
network_pushes(e, indices, id) ==
    IF id \notin e.relation_ids /\ id \notin e.extra_relation_ids
    THEN queue_relations(indices, id)
    ELSE <<>>

NetworkPop ==
    /\ pc = "network_loop"
    /\ q # <<>>
    /\ LET id == Head(q)
           ids == network_pushes(m_extracts[cur], relation_indices, id)
       IN /\ m_extracts' = [m_extracts EXCEPT ![cur] = network_visit(@, id)]
          /\ q' = Tail(q) \o ids
          /\ pushed' = [pushed EXCEPT ![cur] = @ \o ids]
    /\ UNCHANGED <<file, filename_empty, m_by_first_node, pc, pos,
                   m_check_order, m_relations_map_stash, relation_indices,
                   cur, out, ran, calls2, scanned>>

\* The queue is empty: add_relation_network returns, the loop of run() goes
\* to the next extract.
NetworkReturn ==
    /\ pc = "network_loop"
    /\ q = <<>>
    /\ IF cur + 1 \in Regions
       THEN /\ cur' = cur + 1
            /\ pc' = "network"
       ELSE /\ cur' = cur
            /\ pc' = "decide2"
    /\ UNCHANGED <<file, filename_empty, m_by_first_node, pos, m_check_order,
                   m_extracts, m_relations_map_stash, relation_indices, q,
                   pushed, out, ran, calls2, scanned>>

\* The tests before pass 2 and pass 3 looking at the first extract alone.
any_extra_relation_first(extracts) == extracts[1].extra_relation_ids # {}

any_extra_way_first(extracts) == extracts[1].extra_way_ids # {}

\* The find_if of run() before pass 2 and before pass 3.
any_extra_relation(extracts) ==
    \E r \in Regions : extracts[r].extra_relation_ids # {}

any_extra_way(extracts) ==
    \E r \in Regions : extracts[r].extra_way_ids # {}

StartPass2 ==
    /\ pc = "decide2"
    /\ any_extra_relation(m_extracts)
    /\ pc' = "pass2"
    /\ pos' = NextPos({"relation"}, 1)
    /\ ran' = ran \cup {"pass2"}
    /\ UNCHANGED <<file, filename_empty, m_by_first_node, m_check_order,
                   m_extracts, m_relations_map_stash, relation_indices, cur,
                   q, pushed, out, calls2, scanned>>

SkipPass2 ==
    /\ pc = "decide2"
    /\ ~any_extra_relation(m_extracts)
    /\ pc' = "decide3"
    /\ UNCHANGED <<file, filename_empty, m_by_first_node, pos, m_check_order,
                   m_extracts, m_relations_map_stash, relation_indices, cur,
                   q, pushed, out, ran, calls2, scanned>>

Pass2Relation ==
    /\ pc = "pass2"
    /\ pos <= Len(file)
    /\ m_extracts' = [r \in Regions |-> Pass2_erelation(m_extracts[r], file[pos])]
    /\ calls2' = calls2 + Cardinality(Regions)
    /\ pos' = NextPos({"relation"}, pos + 1)
    /\ UNCHANGED <<file, filename_empty, m_by_first_node, pc, m_check_order,
                   m_relations_map_stash, relation_indices, cur, q, pushed,
                   out, ran, scanned>>

Pass2Done ==
    /\ pc = "pass2"
    /\ pos > Len(file)
    /\ pc' = "decide3"
    /\ UNCHANGED <<file, filename_empty, m_by_first_node, pos, m_check_order,
                   m_extracts, m_relations_map_stash, relation_indices, cur,
                   q, pushed, out, ran, calls2, scanned>>

StartPass3 ==
    /\ pc = "decide3"
    /\ any_extra_way(m_extracts)
    /\ pc' = "pass3"
    /\ pos' = NextPos({"way"}, 1)
    /\ ran' = ran \cup {"pass3"}
    /\ UNCHANGED <<file, filename_empty, m_by_first_node, m_check_order,
                   m_extracts, m_relations_map_stash, relation_indices, cur,
                   q, pushed, out, calls2, scanned>>

SkipPass3 ==
    /\ pc = "decide3"
    /\ ~any_extra_way(m_extracts)
    /\ pc' = "pass4"
    /\ pos' = 1
    /\ UNCHANGED <<file, filename_empty, m_by_first_node, m_check_order,
                   m_extracts, m_relations_map_stash, relation_indices, cur,
                   q, pushed, out, ran, calls2, scanned>>

Pass3Way ==
    /\ pc = "pass3"
    /\ pos <= Len(file)
    /\ m_extracts' = [r \in Regions |-> Pass3_eway(m_extracts[r], file[pos])]
    /\ pos' = NextPos({"way"}, pos + 1)
    /\ UNCHANGED <<file, filename_empty, m_by_first_node, pc, m_check_order,
                   m_relations_map_stash, relation_indices, cur, q, pushed,
                   out, ran, calls2, scanned>>

Pass3Done ==
    /\ pc = "pass3"
    /\ pos > Len(file)
    /\ pc' = "pass4"
    /\ pos' = 1
    /\ UNCHANGED <<file, filename_empty, m_by_first_node, m_check_order,
                   m_extracts, m_relations_map_stash, relation_indices, cur,
                   q, pushed, out, ran, calls2, scanned>>

\* Pass 4 reads one element and every extract that holds its ID writes it.
Pass4Element ==
    /\ pc = "pass4"
    /\ pos <= Len(file)
    /\ out' = [r \in Regions |->
                  IF Pass4_writes(m_extracts[r], file[pos])
                  THEN Append(out[r], pos) ELSE out[r]]
    /\ pos' = pos + 1
    /\ UNCHANGED <<file, filename_empty, m_by_first_node, pc, m_check_order,
                   m_extracts, m_relations_map_stash, relation_indices, cur,
                   q, pushed, ran, calls2, scanned>>

Pass4Done ==
    /\ pc = "pass4"
    /\ pos > Len(file)
    /\ pc' = "done"
    /\ UNCHANGED <<file, filename_empty, m_by_first_node, pos, m_check_order,
                   m_extracts, m_relations_map_stash, relation_indices, cur,
                   q, pushed, out, ran, calls2, scanned>>

Next ==
    \/ ThrowStdin
    \/ StartPass1
    \/ Pass1OutOfOrder
    \/ Pass1Node
    \/ Pass1Way
    \/ Pass1Relation
    \/ Pass1Done
    \/ BuildIndexes
    \/ NetworkSeed
    \/ NetworkPop
    \/ NetworkReturn
    \/ StartPass2
    \/ SkipPass2
    \/ Pass2Relation
    \/ Pass2Done
    \/ StartPass3
    \/ SkipPass3
    \/ Pass3Way
    \/ Pass3Done
    \/ Pass4Element
    \/ Pass4Done

Spec == Init /\ [][Next]_vars

\* ------------------------------------------------------------- the input

Positions(type) == {i \in DOMAIN file : file[i].type = type}

\* The position of the element of the input with this type and ID, if any.
InputHas(type, id) == \E i \in Positions(type) : file[i].id = id

AfterPass1 ==
    pc \in {"build_indexes", "network", "network_loop", "decide2", "pass2",
            "decide3", "pass3", "pass4", "done"}

AfterNetwork == pc \in {"decide2", "pass2", "decide3", "pass3", "pass4", "done"}

\* ------------------------------------------------------------------ C1

\* C1: once pass 1 is over, the ID of a point of the input is in an
\* extract's node_ids exactly when the extract contains the point's location.
C1_Containment ==
    AfterPass1 =>
        \A r \in Regions : \A i \in Positions("node") :
            file[i].id \in m_extracts[r].node_ids <=> r \in file[i].location

\* Pass 1 is over and some extract holds one point of the input and not another.
C1_Witness ==
    /\ pc = "build_indexes"
    /\ \E r \in Regions : \E i, j \in Positions("node") :
          /\ r \in file[i].location
          /\ r \notin file[j].location
          /\ file[i].id \in m_extracts[r].node_ids
          /\ file[j].id \notin m_extracts[r].node_ids

\* ------------------------------------------------------------------ C2

\* C2: without by_first_node, once pass 1 is over, a way of the input is in
\* an extract's way_ids exactly when one of its nodes, at any position, is in
\* the extract's node_ids, whatever the way's tags.
C2_AnyNode ==
    (AfterPass1 /\ ~m_by_first_node) =>
        \A r \in Regions : \A i \in Positions("way") :
            file[i].id \in m_extracts[r].way_ids
                <=> \E k \in DOMAIN file[i].nodes :
                        file[i].nodes[k] \in m_extracts[r].node_ids

\* A way with conflicting tags whose first node is outside and whose second
\* node is inside the extract was taken.
C2_Witness ==
    /\ pc = "build_indexes"
    /\ ~m_by_first_node
    /\ \E r \in Regions : \E i \in Positions("way") :
          /\ Len(file[i].nodes) = 2
          /\ file[i].nodes[1] \notin m_extracts[r].node_ids
          /\ file[i].nodes[2] \in m_extracts[r].node_ids
          /\ file[i].tags = {"c"}
          /\ file[i].id \in m_extracts[r].way_ids

\* ------------------------------------------------------------------ C3

\* C3: with by_first_node, once pass 1 is over, a way of the input with at
\* least one node is in an extract's way_ids exactly when its first node is
\* in node_ids and its tags do not conflict, or its tags match.
C3_FirstNode ==
    (AfterPass1 /\ m_by_first_node) =>
        \A r \in Regions : \A i \in Positions("way") :
            Len(file[i].nodes) >= 1 =>
                (file[i].id \in m_extracts[r].way_ids
                    <=> \/ /\ file[i].nodes[1] \in m_extracts[r].node_ids
                           /\ "c" \notin file[i].tags
                        \/ "m" \in file[i].tags)

\* With by_first_node, a way whose first node is inside the extract was left
\* out for its conflicting tags.
C3_Witness ==
    /\ pc = "build_indexes"
    /\ m_by_first_node
    /\ \E r \in Regions : \E i \in Positions("way") :
          /\ Len(file[i].nodes) = 2
          /\ file[i].nodes[1] \in m_extracts[r].node_ids
          /\ file[i].tags = {"c"}
          /\ file[i].id \notin m_extracts[r].way_ids

\* ------------------------------------------------------------------ C4

\* A member of the relation is a point in node_ids or a way in way_ids of e.
HasPrimaryMember(e, relation) ==
    \E k \in DOMAIN relation.members :
        \/ /\ relation.members[k].type = "node"
           /\ relation.members[k].ref \in e.node_ids
        \/ /\ relation.members[k].type = "way"
           /\ relation.members[k].ref \in e.way_ids

\* C4: once pass 1 is over, a relation of the input is in an extract's
\* relation_ids exactly when one of its members is a point in node_ids or a
\* way in way_ids; and the step of pass 1 that reads a relation without such
\* a member leaves all six sets of the extract as they are.
C4_RelationPrimary ==
    /\ [](AfterPass1 =>
            \A r \in Regions : \A i \in Positions("relation") :
                file[i].id \in m_extracts[r].relation_ids
                    <=> HasPrimaryMember(m_extracts[r], file[i]))
    /\ [][(pc = "pass1" /\ pos <= Len(file) /\ file[pos].type = "relation") =>
             \A r \in Regions :
                 ~HasPrimaryMember(m_extracts[r], file[pos]) =>
                     m_extracts'[r] = m_extracts[r]]_vars

\* Pass 1 is over; a relation whose only member is way 2, which an earlier
\* relation of the extract's relation_ids had put into extra_way_ids, is not
\* in relation_ids of that extract.
C4_Witness ==
    /\ pc = "build_indexes"
    /\ \E r \in Regions : \E i, j \in Positions("relation") :
          /\ j < i
          /\ file[j].id \in m_extracts[r].relation_ids
          /\ file[i].members = <<Member("way", 2)>>
          /\ Member("way", 2) \in Range(file[j].members)
          /\ 2 \in m_extracts[r].extra_way_ids
          /\ file[i].id \notin m_extracts[r].relation_ids

\* ------------------------------------------------------------------ C5

\* The graph G: an edge from a relation of the input that matches the system
\* rules to each of its relation-typed members.
SystemEdges ==
    UNION {{<<file[i].id, file[i].members[k].ref>> :
               k \in {j \in DOMAIN file[i].members :
                         file[i].members[j].type = "relation"}} :
           i \in {j \in Positions("relation") : "sys" \in file[j].tags}}

\* The IDs reachable from S along edges of G taken in either direction.
RECURSIVE Connected(_)
Connected(S) ==
    LET N == S \cup {e[2] : e \in {x \in SystemEdges : x[1] \in S}}
               \cup {e[1] : e \in {x \in SystemEdges : x[2] \in S}}
    IN IF N = S THEN S ELSE Connected(N)

\* C5: after add_relation_network has run for every extract, the extract's
\* extra_relation_ids are the IDs connected in G to an ID of relation_ids,
\* less relation_ids; so on a chain A -> B -> C with A in relation_ids, B and
\* C are in extra_relation_ids unless they are in relation_ids themselves.
C5_Network ==
    AfterNetwork =>
        \A r \in Regions :
            /\ m_extracts[r].extra_relation_ids
                 = Connected(m_extracts[r].relation_ids)
                       \ m_extracts[r].relation_ids
            /\ \A ab, bc \in SystemEdges :
                  (ab[2] = bc[1] /\ ab[1] \in m_extracts[r].relation_ids) =>
                      {ab[2], bc[2]} \subseteq
                          m_extracts[r].extra_relation_ids
                              \cup m_extracts[r].relation_ids

\* The closure is done; on a chain A -> B -> C of three relations only A is
\* in relation_ids, and B and C are in extra_relation_ids.
C5_Witness ==
    /\ pc = "decide2"
    /\ \E r \in Regions : \E ab, bc \in SystemEdges :
          /\ ab[2] = bc[1]
          /\ Cardinality({ab[1], ab[2], bc[2]}) = 3
          /\ <<ab[1], bc[2]>> \notin SystemEdges
          /\ <<bc[2], ab[1]>> \notin SystemEdges
          /\ m_extracts[r].relation_ids = {ab[1]}
          /\ m_extracts[r].extra_relation_ids = {ab[2], bc[2]}

\* ------------------------------------------------------------------ C6

\* The ID of the element at position i is in the primary or the extra set of
\* its type of the extract.
Wanted(r, i) ==
    LET e == m_extracts[r]
    IN \/ file[i].type = "node"
             /\ file[i].id \in e.node_ids \cup e.extra_node_ids
       \/ file[i].type = "way"
             /\ file[i].id \in e.way_ids \cup e.extra_way_ids
       \/ file[i].type = "relation"
             /\ file[i].id \in e.relation_ids \cup e.extra_relation_ids

TypeRank(type) ==
    CASE type = "node" -> 1 [] type = "way" -> 2 [] type = "relation" -> 3

\* C6: in pass 4, what an extract has written so far is the wanted elements
\* among those read so far, each once and in the order of the input, points
\* before ways before relations; at the end that is all wanted elements.
C6_Pass4Output ==
    pc \in {"pass4", "done"} =>
        \A r \in Regions :
            /\ out[r] = Sorted({i \in 1..(pos - 1) : Wanted(r, i)})
            /\ pc = "done" => pos = Len(file) + 1
            /\ \A a, b \in DOMAIN out[r] :
                  a < b => TypeRank(file[out[r][a]].type)
                               <= TypeRank(file[out[r][b]].type)

\* Pass 4 is over; an extract wrote a point, a way and a relation, one of
\* them for the extra set alone, and left an element of the input out.
C6_Witness ==
    /\ pc = "done"
    /\ \E r \in Regions :
          /\ \A t \in {"node", "way", "relation"} :
                \E a \in DOMAIN out[r] : file[out[r][a]].type = t
          /\ \E a \in DOMAIN out[r] :
                /\ file[out[r][a]].type = "way"
                /\ file[out[r][a]].id \notin m_extracts[r].way_ids
          /\ Len(out[r]) < Len(file)

\* ------------------------------------------------------------------ C7

\* The element at position i was written to the sink of extract r.
Written(r, i) == i \in Range(out[r])

\* A relation of relation_ids of extract r has this way as a member.
InPrimaryRelation(r, way_id) ==
    \E i \in Positions("relation") :
        /\ file[i].id \in m_extracts[r].relation_ids
        /\ Member("way", way_id) \in Range(file[i].members)

\* C7: at the end of a run, for every way written to an extract's sink, every
\* point of the input the way refers to is written to that sink too.
C7_WayNodesWritten ==
    pc = "done" =>
        \A r \in Regions : \A i \in Positions("way") :
            Written(r, i) =>
                \A k \in DOMAIN file[i].nodes : \A j \in Positions("node") :
                    file[j].id = file[i].nodes[k] => Written(r, j)

\* The run is over; a way that is a member of no relation of relation_ids,
\* so that only pass 2 can have put it into extra_way_ids, was written, and
\* with it a point of the way that is not in node_ids.
C7_Witness ==
    /\ pc = "done"
    /\ ran = {"pass2", "pass3"}
    /\ \E r \in Regions : \E i \in Positions("way") : \E j \in Positions("node") :
          /\ file[i].id \in m_extracts[r].extra_way_ids
          /\ file[i].id \notin m_extracts[r].way_ids
          /\ ~InPrimaryRelation(r, file[i].id)
          /\ Written(r, i)
          /\ file[j].id \in Range(file[i].nodes)
          /\ file[j].id \notin m_extracts[r].node_ids
          /\ Written(r, j)

\* ------------------------------------------------------------------ C8

\* C8: at the end of a run, for every relation of the system rules written to
\* an extract's sink, every member that is in the input is written to that
\* sink, and so is every relation of the system rules that has it as a member.
C8_SystemRelationComplete ==
    pc = "done" =>
        \A r \in Regions : \A i \in Positions("relation") :
            (Written(r, i) /\ "sys" \in file[i].tags) =>
                /\ \A k \in DOMAIN file[i].members : \A j \in DOMAIN file :
                      (file[j].type = file[i].members[k].type
                          /\ file[j].id = file[i].members[k].ref)
                          => Written(r, j)
                /\ \A h \in Positions("relation") :
                      ("sys" \in file[h].tags
                          /\ Member("relation", file[i].id)
                                 \in Range(file[h].members))
                          => Written(r, h)

\* The run is over; relation L of a system is in relation_ids, its way member
\* is not in way_ids, and the relation H that has L as a member has no member
\* in node_ids or way_ids: the way and H were written.
C8_Witness ==
    /\ pc = "done"
    /\ \E r \in Regions : \E i, h \in Positions("relation") :
          \E w \in Positions("way") :
          /\ "sys" \in file[i].tags
          /\ "sys" \in file[h].tags
          /\ file[i].id \in m_extracts[r].relation_ids
          /\ Member("way", file[w].id) \in Range(file[i].members)
          /\ file[w].id \notin m_extracts[r].way_ids
          /\ Written(r, w)
          /\ file[h].members = <<Member("relation", file[i].id)>>
          /\ file[h].id \notin m_extracts[r].relation_ids
          /\ Written(r, h)

\* ------------------------------------------------------------------ C9

\* C9: pass 2 was started exactly when, after the closure, some extract has a
\* non-empty extra_relation_ids; when none has, run() goes from the test
\* straight to the test before pass 3, no set changes and Pass2::erelation
\* is never called.
C9_Pass2Condition ==
    /\ [](pc \in {"pass2", "decide3", "pass3", "pass4", "done"} =>
            /\ "pass2" \in ran
                 <=> \E r \in Regions : m_extracts[r].extra_relation_ids # {}
            /\ "pass2" \notin ran => calls2 = 0)
    /\ [][(pc = "decide2"
             /\ \A r \in Regions : m_extracts[r].extra_relation_ids = {}) =>
             /\ pc' = "decide3"
             /\ m_extracts' = m_extracts
             /\ out' = out
             /\ calls2' = 0
             /\ ran' = ran]_vars

\* Pass 2 was skipped although the relation graph has edges and an extract
\* has a relation in relation_ids.
C9_Witness ==
    /\ pc = "decide3"
    /\ "pass2" \notin ran
    /\ relation_indices.member_to_parent # {}
    /\ \E r \in Regions : m_extracts[r].relation_ids # {}

\* ------------------------------------------------------------------ C10

\* C10: pass 3 was started exactly when, after pass 2 was run or skipped,
\* some extract has a non-empty extra_way_ids.
C10_Pass3Condition ==
    pc \in {"pass3", "pass4", "done"} =>
        ("pass3" \in ran
            <=> \E r \in Regions : m_extracts[r].extra_way_ids # {})

\* Pass 3 runs although no way of any extract's extra_way_ids is a member of
\* a relation of relation_ids: pass 1 left every extra_way_ids empty and
\* pass 2 filled one.
C10_Witness ==
    /\ pc = "pass3"
    /\ ran = {"pass2", "pass3"}
    /\ \E r \in Regions : m_extracts[r].extra_way_ids # {}
    /\ \A r \in Regions : \A w \in m_extracts[r].extra_way_ids :
          ~InPrimaryRelation(r, w)


\* ---------------------------------------------------------------------------
\* C11: nothing is written to any extract before pass 4 starts: while run()
\* is in pass 1, the index build, the network closure, pass 2 or pass 3, when it
\* enters pass 4, and when it ended with an exception, every extract's output
\* is empty; and no step outside pass 4 changes an output.
NothingWritten == \A r \in Regions : out[r] = <<>>

C11_NoWriteBeforePass4 ==
    /\ [](pc \notin {"pass4", "done"} => NothingWritten)
    /\ [](pc = "pass4" /\ pos = 1 => NothingWritten)
    /\ [][pc # "pass4" => out' = out]_vars

\* Pass 1 stopped on an element out of order after it had marked a node and
\* stored a relation; nothing is written.
C11_Witness ==
    /\ pc = "failed"
    /\ ~filename_empty
    /\ \E r \in Regions : m_extracts[r].node_ids # {}
    /\ NothingWritten

\* ---------------------------------------------------------------------------
\* C12: with an empty input file name run() ends with an exception before
\* pass 1: no element is read, no ID set of any extract is changed, the stash
\* and the indexes stay empty, nothing is written.
C12_StdinFails ==
    filename_empty =>
        /\ pc \in {"start", "failed"}
        /\ pos = 1
        /\ m_check_order = [node |-> 0, way |-> 0, relation |-> 0]
        /\ \A r \in Regions : m_extracts[r] = EmptyData
        /\ m_relations_map_stash = {}
        /\ relation_indices = [member_to_parent |-> {}, parent_to_member |-> {}]
        /\ ran = {}
        /\ NothingWritten

\* run() has thrown on an input that holds elements.
C12_Witness ==
    /\ filename_empty
    /\ pc = "failed"
    /\ Len(file) > 0


\* ---------------------------------------------------------------------------
\* run() with extract r as the only extract, as a function of the input: the
\* same handlers, the tests before pass 2 and pass 3 reading r's sets alone.
\* g is the ID that front() yields on a way without nodes.

RECURSIVE alone_pass1(_, _, _, _)
alone_pass1(e, r, i, g) ==
    IF i > Len(file) THEN e
    ELSE LET x == file[i]
             e1 == CASE x.type = "node" -> Pass1_enode(e, r, x)
                     [] x.type = "way" -> Pass1_eway(e, r, x, g \in e.node_ids)
                     [] x.type = "relation" -> Pass1_erelation(e, x)
         IN alone_pass1(e1, r, i + 1, g)

RECURSIVE alone_stash(_, _)
alone_stash(stash, i) ==
    IF i > Len(file) THEN stash
    ELSE alone_stash(IF file[i].type = "relation"
                     THEN Pass1_relation(stash, file[i]) ELSE stash, i + 1)

\* The while loop of add_relation_network, run until the queue is empty.
RECURSIVE alone_network(_, _, _)
alone_network(e, indices, queue) ==
    IF queue = <<>> THEN e
    ELSE alone_network(network_visit(e, Head(queue)), indices,
                       Tail(queue) \o network_pushes(e, indices, Head(queue)))

RECURSIVE alone_pass2(_, _)
alone_pass2(e, i) ==
    IF i > Len(file) THEN e
    ELSE alone_pass2(IF file[i].type = "relation"
                     THEN Pass2_erelation(e, file[i]) ELSE e, i + 1)

RECURSIVE alone_pass3(_, _)
alone_pass3(e, i) ==
    IF i > Len(file) THEN e
    ELSE alone_pass3(IF file[i].type = "way"
                     THEN Pass3_eway(e, file[i]) ELSE e, i + 1)

RECURSIVE alone_pass4(_, _)
alone_pass4(e, i) ==
    IF i > Len(file) THEN <<>>
    ELSE (IF Pass4_writes(e, file[i]) THEN <<i>> ELSE <<>>)
             \o alone_pass4(e, i + 1)

\* The ID sets of extract r when run() ends.
alone_run(r, g) ==
    LET e1 == alone_pass1(EmptyData, r, 1, g)
        indices == build_indexes(alone_stash({}, 1))
        e2 == alone_network(e1, indices,
                            queue_all(indices, Sorted(e1.relation_ids)))
        e3 == IF e2.extra_relation_ids # {} THEN alone_pass2(e2, 1) ELSE e2
    IN IF e3.extra_way_ids # {} THEN alone_pass3(e3, 1) ELSE e3

\* C13: the extracts are independent. When run() ends, the six ID sets of
\* every extract and the sequence written to it are those of a run on the same
\* input and configuration with this extract alone; and a pass 2 or pass 3 that
\* runs for another extract only changes no set of an extract that has no
\* extra relation, or no extra way.
C13_Independent ==
    /\ [](pc = "done" =>
            \A r \in Regions : \E g \in PointIds \cup {0} :
                /\ m_extracts[r] = alone_run(r, g)
                /\ out[r] = alone_pass4(alone_run(r, g), 1))
    /\ [][\A r \in Regions :
            /\ pc = "pass2" /\ m_extracts[r].extra_relation_ids = {}
                  => m_extracts'[r] = m_extracts[r]
            /\ pc = "pass3" /\ m_extracts[r].extra_way_ids = {}
                  => m_extracts'[r] = m_extracts[r]]_vars

\* A run that ended after a pass 2 that one extract alone asked for; the
\* other extract wrote something, and not the same.
C13_Witness ==
    /\ pc = "done"
    /\ "pass2" \in ran
    /\ \E r, s \in Regions :
          /\ m_extracts[r].extra_relation_ids = {}
          /\ m_extracts[s].extra_relation_ids # {}
          /\ out[r] # <<>>
          /\ out[r] # out[s]


\* ---------------------------------------------------------------------------
\* A way of the input with at least two nodes, the first not in node_ids of
\* extract r and the second in it.
FirstOutSecondIn(r, i) ==
    /\ file[i].type = "way"
    /\ Len(file[i].nodes) >= 2
    /\ file[i].nodes[1] \notin m_extracts[r].node_ids
    /\ file[i].nodes[2] \in m_extracts[r].node_ids

\* C14 as stated: once pass 1 is over, a way whose first node is outside and
\* whose second node is inside the extract is in way_ids without by_first_node
\* and is not in way_ids with by_first_node.
C14_ModesDiffer ==
    AfterPass1 =>
        \A r \in Regions : \A i \in Positions("way") :
            FirstOutSecondIn(r, i) =>
                (file[i].id \in m_extracts[r].way_ids <=> ~m_by_first_node)

\* C14, amended: once pass 1 is over, a way whose first node is outside and
\* whose second node is inside the extract is in way_ids without by_first_node;
\* with by_first_node it is in way_ids exactly when its tags match
\* has_matching_tags.
C14_ModesDifferUnlessMatching ==
    AfterPass1 =>
        \A r \in Regions : \A i \in Positions("way") :
            FirstOutSecondIn(r, i) =>
                (file[i].id \in m_extracts[r].way_ids
                    <=> (~m_by_first_node \/ has_matching_tags(r, file[i].tags)))

\* With by_first_node, pass 1 left out a way without matching tags whose
\* first node is outside and whose second node is inside the extract.
C14_Witness ==
    /\ pc = "build_indexes"
    /\ m_by_first_node
    /\ \E r \in Regions : \E i \in Positions("way") :
          /\ FirstOutSecondIn(r, i)
          /\ ~has_matching_tags(r, file[i].tags)
          /\ file[i].id \notin m_extracts[r].way_ids


\* ---------------------------------------------------------------------------
\* add_relation_members called twice on one relation: the function by itself,
\* from any Data that run() can hold (an ID is in the primary set of its type,
\* in the extra set, or in neither) and any relation over MemberChoices.
\* Extract 1 is the Data of the calls; no step touches extract 2, which keeps
\* the Data the calls started from.

Marks == {"none", "primary", "extra"}

DataOf(ns, ws, rs) ==
    [node_ids |-> {i \in DOMAIN ns : ns[i] = "primary"},
     extra_node_ids |-> {i \in DOMAIN ns : ns[i] = "extra"},
     way_ids |-> {i \in DOMAIN ws : ws[i] = "primary"},
     extra_way_ids |-> {i \in DOMAIN ws : ws[i] = "extra"},
     relation_ids |-> {i \in DOMAIN rs : rs[i] = "primary"},
     extra_relation_ids |-> {i \in DOMAIN rs : rs[i] = "extra"}]

InitMembers ==
    /\ \E ns \in [PointIds -> Marks], ws \in [{1, 2} -> Marks],
          rs \in [{1, 2} -> Marks],
          ms \in SeqsUpTo(MemberChoices, MaxMembers) :
            /\ file = <<Relation(1, ms, {"sys"})>>
            /\ m_extracts = [r \in Regions |-> DataOf(ns, ws, rs)]
    /\ filename_empty = FALSE
    /\ m_by_first_node = FALSE
    /\ pc = "members0"
    /\ pos = 1
    /\ m_check_order = [node |-> 0, way |-> 0, relation |-> 0]
    /\ m_relations_map_stash = {}
    /\ relation_indices = [member_to_parent |-> {}, parent_to_member |-> {}]
    /\ cur = 1
    /\ q = <<>>
    /\ pushed = [r \in Regions |-> <<>>]
    /\ out = [r \in Regions |-> <<>>]
    /\ ran = {}
    /\ calls2 = 0
    /\ scanned = [r \in Regions |-> 0]

CallAddRelationMembers ==
    /\ pc \in {"members0", "members1"}
    /\ m_extracts' = [m_extracts EXCEPT ![1] = add_relation_members(@, file[1])]
    /\ pc' = IF pc = "members0" THEN "members1" ELSE "members2"
    /\ UNCHANGED <<file, filename_empty, m_by_first_node, pos, m_check_order,
                   m_relations_map_stash, relation_indices, cur, q, pushed,
                   out, ran, calls2, scanned>>

NextMembers == CallAddRelationMembers

SpecMembers == InitMembers /\ [][NextMembers]_vars

\* C15: add_relation_members is idempotent. The second call on the same
\* relation and Data changes nothing, so extra_node_ids and extra_way_ids stay
\* as the first call left them; and after either call node_ids, way_ids,
\* relation_ids and extra_relation_ids are what they were before the calls.
C15_Idempotent ==
    /\ [][pc = "members1" => m_extracts' = m_extracts]_vars
    /\ [](pc \in {"members1", "members2"} =>
            /\ m_extracts[1].node_ids = m_extracts[2].node_ids
            /\ m_extracts[1].way_ids = m_extracts[2].way_ids
            /\ m_extracts[1].relation_ids = m_extracts[2].relation_ids
            /\ m_extracts[1].extra_relation_ids = m_extracts[2].extra_relation_ids)

\* Two calls were made on a relation with a relation member that is in no
\* set; the first call added a point to extra_node_ids.
C15_Witness ==
    /\ pc = "members2"
    /\ m_extracts[1].extra_node_ids # m_extracts[2].extra_node_ids
    /\ \E k \in DOMAIN file[1].members :
          /\ file[1].members[k].type = "relation"
          /\ file[1].members[k].ref \notin
                 m_extracts[1].relation_ids \cup m_extracts[1].extra_relation_ids


\* ---------------------------------------------------------------------------
\* add_relation_network by itself, called twice on one extract: any relation
\* graph over RelationIds, cycles and relations that are members of themselves
\* included, and any relation_ids. The loop runs as long as the queue holds an
\* ID.

InitNetwork ==
    /\ \E stash \in SUBSET (RelationIds \X RelationIds),
          ids \in SUBSET RelationIds :
            /\ m_relations_map_stash = stash
            /\ relation_indices = build_indexes(stash)
            /\ m_extracts = [r \in Regions |->
                                [EmptyData EXCEPT !.relation_ids = ids]]
    /\ file = <<>>
    /\ filename_empty = FALSE
    /\ m_by_first_node = FALSE
    /\ pc = "network"
    /\ pos = 1
    /\ m_check_order = [node |-> 0, way |-> 0, relation |-> 0]
    /\ cur = 1
    /\ q = <<>>
    /\ pushed = [r \in Regions |-> <<>>]
    /\ out = [r \in Regions |-> <<>>]
    /\ ran = {}
    /\ calls2 = 0
    /\ scanned = [r \in Regions |-> 0]

\* The first call has returned: the second call on the same extract.
NetworkAgain ==
    /\ pc = "network_loop"
    /\ q = <<>>
    /\ "again" \notin ran
    /\ ran' = ran \cup {"again"}
    /\ pc' = "network"
    /\ UNCHANGED <<file, filename_empty, m_by_first_node, pos, m_check_order,
                   m_extracts, m_relations_map_stash, relation_indices, cur, q,
                   pushed, out, calls2, scanned>>

NextNetwork == NetworkSeed \/ NetworkPop \/ NetworkAgain

SpecNetwork == InitNetwork /\ [][NextNetwork]_vars /\ WF_vars(NextNetwork)

\* C16: the closure is a fixed point. No step of a second call of
\* add_relation_network on the Data the first call left changes any of the
\* six sets: no ID is added to extra_relation_ids.
C16_FixedPoint == [][("again" \in ran) => (m_extracts' = m_extracts)]_vars

\* The second call has returned on an extract whose first call had added
\* IDs to extra_relation_ids, among them one that is no neighbour of
\* relation_ids.
C16_Witness ==
    /\ pc = "network_loop"
    /\ q = <<>>
    /\ "again" \in ran
    /\ \E id \in m_extracts[1].extra_relation_ids :
          \A p \in m_extracts[1].relation_ids :
              /\ <<id, p>> \notin m_relations_map_stash
              /\ <<p, id>> \notin m_relations_map_stash


\* ---------------------------------------------------------------------------
\* The positions of the members of the relation that are a point in node_ids
\* or a way in way_ids of e.
PrimaryMembers(e, relation) ==
    {k \in DOMAIN relation.members :
        \/ /\ relation.members[k].type = "node"
           /\ relation.members[k].ref \in e.node_ids
        \/ /\ relation.members[k].type = "way"
           /\ relation.members[k].ref \in e.way_ids}

\* C17: a step of pass 1 that reads a relation and puts it into an extract's
\* relation_ids. If the relation is relevant or part of a relevant system,
\* after the step every point member is in node_ids or extra_node_ids and
\* every way member in way_ids or extra_way_ids; if it is neither, the step
\* changes relation_ids only. In both cases the loop over the members looked
\* at no member after the first that is a point in node_ids or a way in
\* way_ids.
C17_PrimaryRelationStep ==
    [][(pc = "pass1" /\ pos <= Len(file) /\ pos' = pos + 1
           /\ file[pos].type = "relation") =>
        \A r \in Regions :
            LET L == file[pos]
                e == m_extracts[r]
                e1 == m_extracts'[r]
            IN (L.id \notin e.relation_ids /\ L.id \in e1.relation_ids) =>
                /\ (is_relevant_relation(L)
                        \/ is_part_of_relevant_relation_system(L)) =>
                      \A k \in DOMAIN L.members :
                          /\ L.members[k].type = "node" =>
                               L.members[k].ref
                                   \in e1.node_ids \cup e1.extra_node_ids
                          /\ L.members[k].type = "way" =>
                               L.members[k].ref
                                   \in e1.way_ids \cup e1.extra_way_ids
                /\ ~(is_relevant_relation(L)
                        \/ is_part_of_relevant_relation_system(L)) =>
                      e1 = [e EXCEPT !.relation_ids = @ \cup {L.id}]
                /\ PrimaryMembers(e, L) # {}
                /\ scanned'[r] = Min(PrimaryMembers(e, L))]_vars

\* Pass 1 has read a relation that is neither relevant nor part of a system
\* and whose two members are both in the primary sets of an extract: the
\* relation is in relation_ids and the loop looked at the first member only.
C17_Witness ==
    /\ pc = "pass1"
    /\ Len(file) > 0
    /\ pos = Len(file) + 1
    /\ \E r \in Regions :
          LET L == file[Len(file)]
          IN /\ L.type = "relation"
             /\ L.tags = {}
             /\ L.id \in m_extracts[r].relation_ids
             /\ PrimaryMembers(m_extracts[r], L) = {1, 2}
             /\ scanned[r] = 1


\* ---------------------------------------------------------------------------
\* The IDs of the members of this type that are not in the set primary.
MembersOutside(relation, type, primary) ==
    {relation.members[k].ref :
        k \in {j \in DOMAIN relation.members :
                  /\ relation.members[j].type = type
                  /\ relation.members[j].ref \notin primary}}

\* C18: a step of pass 2 on a relation. For an extract that has the relation
\* in extra_relation_ids, if the relation is part of a relevant system, the
\* step adds to extra_node_ids and extra_way_ids the member points and ways
\* that are not in node_ids and way_ids, and changes nothing else. For a
\* relation in extra_relation_ids that is only relevant, or neither, and for
\* a relation that is not in extra_relation_ids, the step leaves all six sets
\* of the extract as they are.
C18_Pass2Step ==
    [][(pc = "pass2" /\ pos <= Len(file) /\ pos' # pos) =>
        \A r \in Regions :
            LET L == file[pos]
                e == m_extracts[r]
            IN IF L.id \in e.extra_relation_ids
                    /\ is_part_of_relevant_relation_system(L)
               THEN m_extracts'[r] =
                      [e EXCEPT
                         !.extra_node_ids =
                             @ \cup MembersOutside(L, "node", e.node_ids),
                         !.extra_way_ids =
                             @ \cup MembersOutside(L, "way", e.way_ids)]
               ELSE m_extracts'[r] = e]_vars

\* Pass 2 is over; a relation in extra_relation_ids of an extract that is
\* relevant but not part of a system has a way member that is in neither way
\* set of the extract.
C18_Witness ==
    /\ pc = "decide3"
    /\ "pass2" \in ran
    /\ \E r \in Regions : \E i \in Positions("relation") :
          /\ file[i].id \in m_extracts[r].extra_relation_ids
          /\ is_relevant_relation(file[i])
          /\ ~is_part_of_relevant_relation_system(file[i])
          /\ MembersOutside(file[i], "way",
                 m_extracts[r].way_ids \cup m_extracts[r].extra_way_ids) # {}


\* ---------------------------------------------------------------------------
\* How often the ID was pushed on the queue of extract r.
Pushes(r, id) == Cardinality({k \in DOMAIN pushed[r] : pushed[r][k] = id})

\* The entries of the index that lead from an ID in relation_ids or
\* extra_relation_ids of extract r to the ID.
EntriesTo(index, r, id) ==
    {p \in index :
        /\ p[1] \in m_extracts[r].relation_ids
                        \cup m_extracts[r].extra_relation_ids
        /\ p[2] = id}

\* C19 as stated: in the add_relation_network of one extract, every relation
\* ID is pushed on the queue at most once.
C19_PushedOnce == \A r \in Regions : \A id \in RelationIds : Pushes(r, id) <= 1

\* C19, amended: in the add_relation_network of one extract, a relation ID is
\* pushed on the queue at most once for every entry of the two indexes that
\* leads to it from an ID in relation_ids or extra_relation_ids, which may be
\* more than once.
C19_PushedOncePerEntry ==
    \A r \in Regions : \A id \in RelationIds :
        Pushes(r, id) <=
            Cardinality(EntriesTo(relation_indices.member_to_parent, r, id))
                + Cardinality(EntriesTo(relation_indices.parent_to_member, r, id))

\* add_relation_network has returned for every extract, and for one of them
\* an ID was pushed more than once.
C19_Witness ==
    /\ pc = "decide2"
    /\ \E r \in Regions : \E id \in RelationIds : Pushes(r, id) >= 2


\* ---------------------------------------------------------------------------
\* C20: add_relation_network ends on every relation graph and every
\* relation_ids. The first call and the call after it both reach the empty
\* queue; the loop pushes the neighbours of an ID only in the iteration that
\* puts this ID into extra_relation_ids, and no ID ever leaves
\* extra_relation_ids, so the neighbours of an ID are pushed at most once
\* after it was added.
C20_Terminates ==
    /\ <>(pc = "network_loop" /\ q = <<>> /\ "again" \in ran)
    /\ [][pc = "network_loop" =>
            /\ m_extracts[cur].extra_relation_ids
                   \subseteq m_extracts'[cur].extra_relation_ids
            /\ pushed'[cur] # pushed[cur] =>
                  /\ q # <<>>
                  /\ Head(q) \notin m_extracts[cur].extra_relation_ids
                  /\ Head(q) \in m_extracts'[cur].extra_relation_ids]_vars

\* The first call has ended on a graph in which two IDs outside relation_ids
\* are parent and member of each other; both are in extra_relation_ids.
C20_Witness ==
    /\ pc = "network_loop"
    /\ q = <<>>
    /\ "again" \notin ran
    /\ \E a, b \in m_extracts[1].extra_relation_ids :
          /\ a # b
          /\ <<a, b>> \in m_relations_map_stash
          /\ <<b, a>> \in m_relations_map_stash


\* ---------------------------------------------------------------------------
\* The steps run() can take from one phase to the next.
PhaseSteps ==
    {<<"start", "pass1">>, <<"start", "failed">>,
     <<"pass1", "pass1">>, <<"pass1", "failed">>,
     <<"pass1", "build_indexes">>, <<"build_indexes", "network">>,
     <<"network", "network_loop">>, <<"network_loop", "network_loop">>,
     <<"network_loop", "network">>, <<"network_loop", "decide2">>,
     <<"decide2", "pass2">>, <<"decide2", "decide3">>,
     <<"pass2", "pass2">>, <<"pass2", "decide3">>,
     <<"decide3", "pass3">>, <<"decide3", "pass4">>,
     <<"pass3", "pass3">>, <<"pass3", "pass4">>,
     <<"pass4", "pass4">>, <<"pass4", "done">>}

LastRegion == CHOOSE r \in Regions : \A s \in Regions : s <= r

\* C21: the phases of run() come in the order pass 1, build_indexes,
\* add_relation_network for every extract in turn, pass 2 if it runs, pass 3 if
\* it runs, pass 4. The stash gets pairs only in a step of pass 1 on a relation
\* that is part of a relevant relation system; the indexes are set once, in the
\* step that follows pass 1 and precedes the first add_relation_network, from
\* the stash as pass 1 left it; neither changes in add_relation_network or in
\* pass 2 to pass 4.
C21_PhaseOrder ==
    /\ [][/\ <<pc, pc'>> \in PhaseSteps
          /\ pc' = "network" =>
                IF pc = "build_indexes" THEN cur' = 1 ELSE cur' = cur + 1
          /\ pc' = "decide2" => cur = LastRegion
          /\ m_relations_map_stash' # m_relations_map_stash =>
                /\ pc = "pass1"
                /\ pos <= Len(file)
                /\ file[pos].type = "relation"
                /\ is_part_of_relevant_relation_system(file[pos])
          /\ relation_indices' # relation_indices => pc = "build_indexes"
          /\ pc = "build_indexes" =>
                relation_indices' = build_indexes(m_relations_map_stash)]_vars
    /\ [](pc \in {"start", "pass1", "build_indexes"} =>
             relation_indices = build_indexes({}))
    /\ [](pc \in {"network", "network_loop", "decide2", "pass2", "decide3",
                  "pass3", "pass4", "done"} =>
             relation_indices = build_indexes(m_relations_map_stash))

\* A run has gone through its phases, pass 2 included, with a stash that
\* holds a pair; a relation of the input that is not part of a system has a
\* relation member and left no pair.
C21_Witness ==
    /\ pc = "done"
    /\ "pass2" \in ran
    /\ m_relations_map_stash # {}
    /\ \E i \in Positions("relation") :
          /\ ~is_part_of_relevant_relation_system(file[i])
          /\ \E k \in DOMAIN file[i].members :
                /\ file[i].members[k].type = "relation"
                /\ <<file[i].members[k].ref, file[i].id>>
                       \notin m_relations_map_stash


\* ---------------------------------------------------------------------------
\* Every ID of each of the six sets of Data d is in the same set of Data e.
Within(d, e) ==
    /\ d.node_ids \subseteq e.node_ids
    /\ d.extra_node_ids \subseteq e.extra_node_ids
    /\ d.way_ids \subseteq e.way_ids
    /\ d.extra_way_ids \subseteq e.extra_way_ids
    /\ d.relation_ids \subseteq e.relation_ids
    /\ d.extra_relation_ids \subseteq e.extra_relation_ids

\* C22: the six ID sets of every extract only grow: in every step of run(),
\* of a pass or of add_relation_network, an ID that is in a set before the
\* step is in that set after it.
C22_SetsGrow ==
    [][\A r \in Regions : Within(m_extracts[r], m_extracts'[r])]_vars

\* At the end of a run an extract holds IDs that pass 1, the closure, pass 2
\* and pass 3 added: a point, an extra relation, an extra way and an extra
\* point.
C22_Witness ==
    /\ pc = "done"
    /\ {"pass2", "pass3"} \subseteq ran
    /\ \E r \in Regions :
          /\ m_extracts[r].node_ids # {}
          /\ m_extracts[r].extra_relation_ids # {}
          /\ m_extracts[r].extra_way_ids # {}
          /\ m_extracts[r].extra_node_ids # {}


\* ---------------------------------------------------------------------------
\* C23: run() reads points, then ways, then relations (CheckOrder ends it on
\* anything else). In every state and for every extract the primary and the
\* extra set of one type share no ID; once pass 1 is over node_ids, way_ids and
\* relation_ids do not change; and extra_relation_ids changes in the while
\* loop of add_relation_network only.
C23_Disjoint ==
    /\ [](\A r \in Regions :
            /\ m_extracts[r].node_ids \cap m_extracts[r].extra_node_ids = {}
            /\ m_extracts[r].way_ids \cap m_extracts[r].extra_way_ids = {}
            /\ m_extracts[r].relation_ids
                   \cap m_extracts[r].extra_relation_ids = {})
    /\ [][\A r \in Regions :
            /\ pc \notin {"start", "pass1"} =>
                  /\ m_extracts'[r].node_ids = m_extracts[r].node_ids
                  /\ m_extracts'[r].way_ids = m_extracts[r].way_ids
                  /\ m_extracts'[r].relation_ids = m_extracts[r].relation_ids
            /\ m_extracts'[r].extra_relation_ids
                   # m_extracts[r].extra_relation_ids =>
                  pc = "network_loop" /\ r = cur]_vars

\* At the end of a run an extract has a way in way_ids one of whose nodes is
\* in node_ids and the other in extra_node_ids.
C23_Witness ==
    /\ pc = "done"
    /\ \E r \in Regions :
          /\ \E i \in Positions("way") :
                /\ file[i].id \in m_extracts[r].way_ids
                /\ Range(file[i].nodes) \cap m_extracts[r].node_ids # {}
                /\ Range(file[i].nodes) \cap m_extracts[r].extra_node_ids # {}


\* ---------------------------------------------------------------------------
\* The relation at position i of the input is in relation_ids or
\* extra_relation_ids of extract r.
RelationTaken(r, i) ==
    /\ file[i].type = "relation"
    /\ file[i].id \in m_extracts[r].relation_ids
                          \cup m_extracts[r].extra_relation_ids

\* C24: when run() has ended, every ID of an extra set has a reason. A point
\* in extra_node_ids is a node of a way in way_ids or extra_way_ids, or a point
\* member of a relation in relation_ids or extra_relation_ids. A way in
\* extra_way_ids is a way member of a relation in relation_ids or
\* extra_relation_ids that is relevant or part of a relevant relation system.
\* A relation in extra_relation_ids is connected to an ID of relation_ids by
\* edges of the relation graph.
C24_ExtrasJustified ==
    pc = "done" =>
        \A r \in Regions :
            /\ \A id \in m_extracts[r].extra_node_ids :
                  \/ \E i \in Positions("way") :
                        /\ file[i].id \in m_extracts[r].way_ids
                                              \cup m_extracts[r].extra_way_ids
                        /\ id \in Range(file[i].nodes)
                  \/ \E i \in Positions("relation") :
                        /\ RelationTaken(r, i)
                        /\ Member("node", id) \in Range(file[i].members)
            /\ \A id \in m_extracts[r].extra_way_ids :
                  \E i \in Positions("relation") :
                      /\ RelationTaken(r, i)
                      /\ is_relevant_relation(file[i])
                            \/ is_part_of_relevant_relation_system(file[i])
                      /\ Member("way", id) \in Range(file[i].members)
            /\ \A id \in m_extracts[r].extra_relation_ids :
                  id \in Connected(m_extracts[r].relation_ids)

\* A run has ended in which an extract has an extra relation, an extra way
\* that only this relation holds, and an extra point that only this way holds.
C24_Witness ==
    /\ pc = "done"
    /\ \E r \in Regions :
          \E i \in Positions("relation"), j \in Positions("way") :
              /\ file[i].id \in m_extracts[r].extra_relation_ids
              /\ file[j].id \in m_extracts[r].extra_way_ids
              /\ Member("way", file[j].id) \in Range(file[i].members)
              /\ \A k \in Positions("relation") \ {i} :
                    Member("way", file[j].id) \notin Range(file[k].members)
              /\ Range(file[j].nodes) \cap m_extracts[r].extra_node_ids # {}

====
